---- MODULE Spec2Model ----
(***************************************************************************)
(* Model of the secure IoT anomaly detection system: sensors, the          *)
(* asynchronous data engine (collect_once / sensor_loop), the batch        *)
(* buffer (DataProcessor) and the orchestrator (run_system).               *)
(*                                                                         *)
(* Readings are floats in the source; here they are small naturals.        *)
(* A Python dict is a sequence of [k, v] entries in insertion order.       *)
(***************************************************************************)
EXTENDS Integers, Sequences, FiniteSets, TLC

(* ------------------------------ bounds --------------------------------- *)
MaxCap == 3          \* batch_size ranges over 1..MaxCap
MaxCalls == 5        \* calls made on a DataProcessor driven directly
MaxSensors == 2      \* length of the source lists handed to sensor_loop
MaxIter == 2         \* iterations handed to sensor_loop
MaxRunSensors == 3   \* max_sensors of an orchestrator run
MaxRunIter == 2      \* cycles of an orchestrator run
MaxOps == 4          \* calibrate / read_data calls made on one sensor
MaxStatLen == 5      \* length of a batch whose statistics are compared
MaxStatValue == 4    \* largest reading of such a batch
MaxPad == 1          \* whitespace characters before and after a type name
MaxObjs == 3         \* Sensor objects a cache user creates
MaxOwners == 2       \* strong references held on one Sensor object
MantissaBits == 4    \* significand bits of the binary floats (float64 has 53)
MaxDetLen == 3       \* length of the data handed to a detection strategy
MaxCfgCalls == 3     \* constructions of and assignments to SystemConfig
MaxLogCalls == 2     \* calls of save_secure_log
MaxStreamLen == 2    \* values left in a stream a caller gave a sensor

\* the readings a stream can yield (random.uniform(0.0, 100.0) in the source)
Values == {0, 1}

(* ------------------------------ state ---------------------------------- *)
VARIABLES
  sensors,      \* the source list: sequence of [type, name, calibrated]
  batch_size,   \* DataProcessor.batch_size
  buffer,       \* DataProcessor._buffer
  procTrace,    \* history of the calls made on the DataProcessor
  iterations,   \* sensor_loop argument
  delay,        \* sensor_loop argument
  loopPc,       \* position of sensor_loop
  cycle,        \* number of loop iterations of sensor_loop completed
  taskPc,       \* position of each read_sensor task of the current cycle
  results,      \* value returned by each read_sensor task
  snapshots,    \* sensor_loop's snapshots list
  readPc,       \* position of the read_data coroutine of each sensor
  readRet,      \* outcome of the last read_data of each sensor
  sensorOps,    \* history of the calls made on each sensor
  config,       \* the values run_system takes from SystemConfig
  runPc,        \* position of run_system
  snapIdx,      \* index of the snapshot run_system is working on
  valIdx,       \* index of the next value of that snapshot to add
  batch_ready,  \* run_system's local batch_ready
  batches,      \* statistics produced by run_system, in order
  runLog,       \* what run_system did after its batches: process, detect, alert
  registry,     \* SensorRegistryMeta._registry
  calls,        \* history of the calls made on the factory, cache, detector, config, log
  heap,         \* the Sensor objects: strong owners and whether still allocated
  cache,        \* SensorCache._cache
  cfg,          \* SystemConfig._instance and its attributes
  files,        \* the files of the working directory
  strategy      \* AnomalyDetector._strategy

sensorVars == <<sensors>>
procVars == <<batch_size, buffer, procTrace>>
engineVars == <<iterations, delay, loopPc, cycle, taskPc, results, snapshots>>
apiVars == <<readPc, readRet, sensorOps>>
runVars == <<config, runPc, snapIdx, valIdx, batch_ready, batches, runLog>>
vars == <<sensors, batch_size, buffer, procTrace, iterations, delay, loopPc, cycle,
          taskPc, results, snapshots, readPc, readRet, sensorOps,
          config, runPc, snapIdx, valIdx, batch_ready, batches, runLog,
          registry, calls, heap, cache, cfg, files, strategy>>
extVars == <<registry, calls, heap, cache, cfg, files, strategy>>

None == "None"

(* ------------------------- sequence helpers ---------------------------- *)
RECURSIVE SeqSum(_)
SeqSum(s) == IF s = <<>> THEN 0 ELSE Head(s) + SeqSum(Tail(s))

\* Python dict: d[k] = v keeps the position of an existing key
DictSet(d, k, v) ==
  IF \E i \in 1..Len(d) : d[i].k = k
  THEN [i \in 1..Len(d) |-> IF d[i].k = k THEN [k |-> k, v |-> v] ELSE d[i]]
  ELSE Append(d, [k |-> k, v |-> v])
DictKeys(d) == [i \in 1..Len(d) |-> d[i].k]
DictValues(d) == [i \in 1..Len(d) |-> d[i].v]

DictHas(d, k) == \E i \in 1..Len(d) : d[i].k = k
DictGet(d, k) == d[CHOOSE i \in 1..Len(d) : d[i].k = k].v

\* Python str as the sequence of its characters; str.strip() and str.lower()
Whitespace == {" ", "\t", "\n"}
LowerLetters ==
  <<"a", "b", "c", "d", "e", "f", "g", "h", "i", "j", "k", "l", "m">> \o
  <<"n", "o", "p", "q", "r", "s", "t", "u", "v", "w", "x", "y", "z">>
UpperLetters ==
  <<"A", "B", "C", "D", "E", "F", "G", "H", "I", "J", "K", "L", "M">> \o
  <<"N", "O", "P", "Q", "R", "S", "T", "U", "V", "W", "X", "Y", "Z">>
Lower(c) ==
  IF \E i \in 1..Len(UpperLetters) : UpperLetters[i] = c
  THEN LowerLetters[CHOOSE i \in 1..Len(UpperLetters) : UpperLetters[i] = c]
  ELSE c
Upper(c) ==
  IF \E i \in 1..Len(LowerLetters) : LowerLetters[i] = c
  THEN UpperLetters[CHOOSE i \in 1..Len(LowerLetters) : LowerLetters[i] = c]
  ELSE c
LowerStr(s) == [i \in 1..Len(s) |-> Lower(s[i])]
UpperStr(s) == [i \in 1..Len(s) |-> Upper(s[i])]
RECURSIVE LStrip(_)
LStrip(s) == IF s # <<>> /\ Head(s) \in Whitespace THEN LStrip(Tail(s)) ELSE s
RECURSIVE RStrip(_)
RStrip(s) ==
  IF s # <<>> /\ s[Len(s)] \in Whitespace THEN RStrip(SubSeq(s, 1, Len(s) - 1)) ELSE s
Strip(s) == RStrip(LStrip(s))

\* exact fractions [num, den], den > 0, in lowest terms: Python's float
\* division, subtraction, squaring and summation without the rounding
RECURSIVE GCD(_, _)
GCD(a, b) == IF b = 0 THEN a ELSE GCD(b, a % b)
Abs(x) == IF x < 0 THEN -x ELSE x
Rat(n, d) ==
  LET g == GCD(Abs(n), d) IN [num |-> n \div g, den |-> d \div g]
RatAdd(a, b) ==
  LET g == GCD(a.den, b.den)
  IN Rat(a.num * (b.den \div g) + b.num * (a.den \div g), (a.den \div g) * b.den)
RatSub(a, b) == RatAdd(a, [num |-> -b.num, den |-> b.den])
RatMul(a, b) ==
  LET g == GCD(Abs(a.num), b.den)
      h == GCD(Abs(b.num), a.den)
  IN Rat((a.num \div g) * (b.num \div h), (a.den \div h) * (b.den \div g))
RatDivInt(a, n) == RatMul(a, [num |-> 1, den |-> n])
RatEq(a, b) == a.num * b.den = b.num * a.den
RatLess(a, b) ==
  LET g == GCD(a.den, b.den) IN a.num * (b.den \div g) < b.num * (a.den \div g)
RECURSIVE RatSum(_)
RatSum(s) == IF s = <<>> THEN Rat(0, 1) ELSE RatAdd(Head(s), RatSum(Tail(s)))

\* binary floating point with MantissaBits significand bits, round to nearest,
\* ties to even, unbounded exponent: a float is the fraction it stands for
RECURSIVE Pow2(_)
Pow2(k) == IF k = 0 THEN 1 ELSE 2 * Pow2(k - 1)
MinMantissa == Pow2(MantissaBits - 1)
MaxMantissa == Pow2(MantissaBits)
\* the exponent e that brings n / d * 2^(-e) into [MinMantissa, MaxMantissa)
RECURSIVE FlNormalize(_, _, _)
FlNormalize(n, d, e) ==
  IF n < MinMantissa * d THEN FlNormalize(2 * n, d, e - 1)
  ELSE IF n >= MaxMantissa * d THEN FlNormalize(n, 2 * d, e + 1)
  ELSE [n |-> n, d |-> d, e |-> e]
Scaled(m, e) == IF e >= 0 THEN Rat(m * Pow2(e), 1) ELSE Rat(m, Pow2(-e))
\* the float nearest to the fraction r
Fl(r) ==
  IF r.num = 0 THEN Rat(0, 1)
  ELSE LET x == FlNormalize(Abs(r.num), r.den, 0)
           q == x.n \div x.d
           rem2 == 2 * (x.n - q * x.d)
           m == IF rem2 > x.d \/ (rem2 = x.d /\ q % 2 = 1) THEN q + 1 ELSE q
           mag == Scaled(m, x.e)
       IN IF r.num < 0 THEN [num |-> -mag.num, den |-> mag.den] ELSE mag
FAdd(a, b) == Fl(RatAdd(a, b))
FSub(a, b) == Fl(RatSub(a, b))
FMul(a, b) == Fl(RatMul(a, b))
FDiv(a, b) ==
  Fl(RatMul(a, [num |-> b.den * (IF b.num < 0 THEN -1 ELSE 1), den |-> Abs(b.num)]))
FAbs(a) == Rat(Abs(a.num), a.den)
\* the exponent e that brings n / d * 4^(-e) into [MinMantissa^2, MaxMantissa^2)
RECURSIVE SqrtNormalize(_, _, _)
SqrtNormalize(n, d, e) ==
  IF n < MinMantissa * MinMantissa * d THEN SqrtNormalize(4 * n, d, e - 1)
  ELSE IF n >= MaxMantissa * MaxMantissa * d THEN SqrtNormalize(n, 4 * d, e + 1)
  ELSE [n |-> n, d |-> d, e |-> e]
\* the float nearest to the square root of the float a >= 0
FSqrt(a) ==
  IF a.num = 0 THEN Rat(0, 1)
  ELSE LET x == SqrtNormalize(a.num, a.den, 0)
           m == CHOOSE k \in MinMantissa..MaxMantissa :
                  /\ (2 * k - 1) * (2 * k - 1) * x.d <= 4 * x.n
                  /\ 4 * x.n < (2 * k + 1) * (2 * k + 1) * x.d
       IN Scaled(m, x.e)
\* numpy's sum of a short array: left to right
RECURSIVE FSum(_)
FSum(s) ==
  IF s = <<>> THEN Rat(0, 1) ELSE FAdd(FSum(SubSeq(s, 1, Len(s) - 1)), s[Len(s)])

(* ============================== sensor.py ============================== *)

NotCalibrated == "RuntimeError: must be calibrated before reading data."

\* the concrete Sensor classes: SENSOR_NAME and the name given to Sensor.__init__
SensorTypes == {"temperature", "pressure", "vibration"}
SensorName(type) ==
  CASE type = "temperature" -> "Temperature"
    [] type = "pressure" -> "Pressure"
    [] type = "vibration" -> "Vibration"
    [] type = "probe" -> "Probe"

\* Sensor.__init__ through a concrete class: the new sensor is not calibrated
NewSensor(type) == [type |-> type, name |-> SensorName(type), calibrated |-> FALSE]

\* calibrate() of the three concrete classes
calibrate(s) == [s EXCEPT !.calibrated = TRUE]

\* Sensor._ensure_calibrated: the error it raises, or None
\* (faulty variant: the check never raises)
ensure_calibrated_never(s) == None
ensure_calibrated(s) == IF ~s.calibrated THEN NotCalibrated ELSE None

\* Sensor._safe_read on the sensor's own infinite stream: the float it yields
safe_read(value) == value

\* what a stream yields: a float, an int, a bool, None or a string
Numeric == {"float", "int", "bool"}
StreamItem(kind, value) == [kind |-> kind, value |-> value]
NoItem == StreamItem("none", 0)
StopIteration == "StopIteration"
InvalidReading == "Error: Invalid sensor reading"

\* next(self._stream) on a stream given as the sequence of what it still yields
stream_next(stream) ==
  IF stream = <<>> THEN [raised |-> StopIteration, item |-> NoItem, rest |-> <<>>]
  ELSE [raised |-> None, item |-> Head(stream), rest |-> Tail(stream)]

\* the test `value is None or not isinstance(value, (int, float))`
is_invalid_reading(item) == item.kind \notin Numeric

\* Sensor._safe_read on any stream: the value returned, what is printed (None
\* when nothing is), and the rest of the stream. StopIteration has its own
\* handler, which returns 0.0 and prints nothing; the ValueError raised for an
\* invalid value is caught by `except Exception`, which prints and returns 0.0
safe_read_stream(stream) ==
  LET got == stream_next(stream)
  IN IF got.raised = StopIteration
     THEN [raised |-> None, value |-> 0, printed |-> None, rest |-> got.rest]
     ELSE IF is_invalid_reading(got.item)
     THEN [raised |-> None, value |-> 0, printed |-> InvalidReading, rest |-> got.rest]
     ELSE [raised |-> None, value |-> got.item.value, printed |-> None, rest |-> got.rest]

(* ============================= registry.py ============================= *)

\* the classes sensor.py creates through the metaclass, in order: the class
\* name, SENSOR_NAME (empty when the class has none), abstractness, and the class
TypeChars(type) ==
  CASE type = "temperature" -> <<"t", "e", "m", "p", "e", "r", "a", "t", "u", "r", "e">>
    [] type = "pressure" -> <<"p", "r", "e", "s", "s", "u", "r", "e">>
    [] type = "vibration" -> <<"v", "i", "b", "r", "a", "t", "i", "o", "n">>
SensorClasses ==
  << [name |-> <<"S", "e", "n", "s", "o", "r">>, SENSOR_NAME |-> <<>>, abstract |-> TRUE, cls |-> "sensor"],
     [name |-> <<"T", "e", "m", "p", "S", "e", "n", "s", "o", "r">>, SENSOR_NAME |-> TypeChars("temperature"),
      abstract |-> FALSE, cls |-> "temperature"],
     [name |-> <<"P", "r", "e", "s", "s", "u", "r", "e", "S", "e", "n", "s", "o", "r">>, SENSOR_NAME |-> TypeChars("pressure"),
      abstract |-> FALSE, cls |-> "pressure"],
     [name |-> <<"V", "i", "b", "r", "a", "t", "i", "o", "n", "S", "e", "n", "s", "o", "r">>, SENSOR_NAME |-> TypeChars("vibration"),
      abstract |-> FALSE, cls |-> "vibration"] >>

\* a concrete class a user module defines without a SENSOR_NAME
ProbeClass == [name |-> <<"P", "r", "o", "b", "e">>, SENSOR_NAME |-> <<>>, abstract |-> FALSE, cls |-> "probe"]

\* SensorRegistryMeta.__new__: a concrete class is registered under its
\* lower-cased SENSOR_NAME, or under its class name when it has none
registry_new(reg, c) ==
  IF c.abstract THEN reg
  ELSE DictSet(reg, IF c.SENSOR_NAME # <<>> THEN LowerStr(c.SENSOR_NAME) ELSE c.name, c.cls)

\* the registry once sensor.py is imported
RECURSIVE RegisterAll(_, _)
RegisterAll(classes, n) ==
  IF n = 0 THEN <<>> ELSE registry_new(RegisterAll(classes, n - 1), classes[n])
ImportedRegistry == RegisterAll(SensorClasses, Len(SensorClasses))

\* SensorRegistryMeta.get_registry(): a copy of the registry
get_registry(reg) == [i \in 1..Len(reg) |-> reg[i]]

(* ============================= factory.py ============================== *)

InvalidInput == "ValueError: Sensor type must be a non-empty string."
UnknownType == "ValueError: Unknown sensor type. Available sensors: "
NoSensor == [type |-> None, name |-> None, calibrated |-> FALSE]

\* the guard `not sensor_type or not sensor_type.strip()`
\* (faulty variant: only the empty string is rejected)
is_blank_empty_only(sensor_type) == sensor_type = <<>>
is_blank(sensor_type) == sensor_type = <<>> \/ Strip(sensor_type) = <<>>

\* normalized = sensor_type.strip().lower()
\* (faulty variant: the case is kept)
normalize_keep_case(sensor_type) == Strip(sensor_type)
normalize(sensor_type) == LowerStr(Strip(sensor_type))

\* SensorFactory.create_sensor(sensor_type) against a registry: the error raised
\* with the type names its message lists, or the instance of the registered class
create_sensor_call(sensor_type, reg) ==
  IF is_blank(sensor_type)
  THEN [raised |-> InvalidInput, available |-> <<>>, sensor |-> NoSensor]
  ELSE LET normalized == normalize(sensor_type)
           copy == get_registry(reg)
       IN IF ~DictHas(copy, normalized)
          THEN [raised |-> UnknownType, available |-> DictKeys(copy), sensor |-> NoSensor]
          ELSE [raised |-> None, available |-> <<>>,
                sensor |-> NewSensor(DictGet(copy, normalized))]

\* SensorFactory.create_sensor for a registered type name
create_sensor(type) == create_sensor_call(TypeChars(type), ImportedRegistry).sensor

(* --------------------- calls made on one sensor ------------------------ *)
SensorOp(i, op, raised) == [i |-> i, op |-> op, raised |-> raised]

\* sensor.calibrate()
Calibrate(i) ==
  /\ i \in 1..Len(readPc)
  /\ Len(sensorOps) < MaxOps
  /\ sensors' = [sensors EXCEPT ![i] = calibrate(@)]
  /\ sensorOps' = Append(sensorOps, SensorOp(i, "calibrate", None))
  /\ UNCHANGED <<readPc, readRet>>
  /\ UNCHANGED <<procVars, engineVars, runVars>>
  /\ UNCHANGED extVars

\* await sensor.read_data(), up to the sleep: _ensure_calibrated raises or passes
ReadDataStart(i) ==
  /\ i \in 1..Len(readPc)
  /\ Len(sensorOps) < MaxOps
  /\ readPc[i] = "idle"
  /\ LET err == ensure_calibrated(sensors[i]) IN
       IF err # None
       THEN /\ readRet' = [readRet EXCEPT ![i] = [raised |-> err, value |-> 0]]
            /\ sensorOps' = Append(sensorOps, SensorOp(i, "read_data", err))
            /\ UNCHANGED readPc
       ELSE /\ readPc' = [readPc EXCEPT ![i] = "sleeping"]
            /\ UNCHANGED <<readRet, sensorOps>>
  /\ UNCHANGED <<sensorVars, procVars, engineVars, runVars>>
  /\ UNCHANGED extVars

\* the sleep ends and read_data returns what _safe_read returns
ReadDataFinish(i) ==
  /\ i \in 1..Len(readPc)
  /\ readPc[i] = "sleeping"
  /\ \E value \in Values :
       readRet' = [readRet EXCEPT ![i] = [raised |-> None, value |-> safe_read(value)]]
  /\ readPc' = [readPc EXCEPT ![i] = "idle"]
  /\ sensorOps' = Append(sensorOps, SensorOp(i, "read_data", None))
  /\ UNCHANGED <<sensorVars, procVars, engineVars, runVars>>
  /\ UNCHANGED extVars

(* ============================ data_engine.py =========================== *)

\* asyncio.gather(*tasks): the tasks' results in the order the tasks were passed
gather(res) == res

\* gather returns once every task is done
\* (faulty variant: returns as soon as one task is done)
gather_any(pcs) == \E i \in 1..Len(pcs) : pcs[i] = "done"
gather_ready(pcs) == \A i \in 1..Len(pcs) : pcs[i] = "done"

\* {sensor.name: value for sensor, value in zip(sensors, results)}, first n pairs
RECURSIVE DictFromZip(_, _, _)
DictFromZip(sens, res, n) ==
  IF n = 0 THEN <<>>
  ELSE DictSet(DictFromZip(sens, res, n - 1), sens[n].name, res[n])

collect_once_snapshot(sens, res) == DictFromZip(sens, gather(res), Len(sens))

\* for _ in range(iterations): is there another iteration?
loop_more(done, n) == done < n

\* collect_once up to the await: one read_sensor task per sensor, all sharing one
\* fresh sensor_stream()
CollectStart ==
  /\ loopPc = "loop"
  /\ loop_more(cycle, iterations)
  /\ loopPc' = "gather"
  /\ taskPc' = [i \in 1..Len(sensors) |-> "sleeping"]
  /\ results' = [i \in 1..Len(sensors) |-> 0]
  /\ UNCHANGED <<iterations, delay, cycle, snapshots>>
  /\ UNCHANGED <<sensorVars, procVars, apiVars, runVars>>
  /\ UNCHANGED extVars

\* read_sensor(sensor, stream): the sleep ends and the task returns next(stream);
\* the sensor argument is not used
ReadSensorDone(i) ==
  /\ loopPc = "gather"
  /\ i \in 1..Len(taskPc)
  /\ taskPc[i] = "sleeping"
  /\ \E value \in Values : results' = [results EXCEPT ![i] = value]
  /\ taskPc' = [taskPc EXCEPT ![i] = "done"]
  /\ UNCHANGED <<iterations, delay, loopPc, cycle, snapshots>>
  /\ UNCHANGED <<sensorVars, procVars, apiVars, runVars>>
  /\ UNCHANGED extVars

\* gather returns, collect_once builds the dict and returns it, sensor_loop appends
\* it and reaches the delay test
GatherDone ==
  /\ loopPc = "gather"
  /\ gather_ready(taskPc)
  /\ snapshots' = Append(snapshots, collect_once_snapshot(sensors, results))
  /\ cycle' = cycle + 1
  /\ loopPc' = IF delay > 0 THEN "delay" ELSE "loop"
  /\ taskPc' = <<>> /\ results' = <<>>
  /\ UNCHANGED <<iterations, delay>>
  /\ UNCHANGED <<sensorVars, procVars, apiVars, runVars>>
  /\ UNCHANGED extVars

\* await asyncio.sleep(delay) ends
DelayDone ==
  /\ loopPc = "delay"
  /\ loopPc' = "loop"
  /\ UNCHANGED <<iterations, delay, cycle, taskPc, results, snapshots>>
  /\ UNCHANGED <<sensorVars, procVars, apiVars, runVars>>
  /\ UNCHANGED extVars

\* return snapshots
LoopReturn ==
  /\ loopPc = "loop"
  /\ ~loop_more(cycle, iterations)
  /\ loopPc' = "returned"
  /\ UNCHANGED <<iterations, delay, cycle, taskPc, results, snapshots>>
  /\ UNCHANGED <<sensorVars, procVars, apiVars, runVars>>
  /\ UNCHANGED extVars

(* =============================== main.py =============================== *)

\* build_sensors(num_sensors): the types cycle, every sensor is calibrated
sensor_types == <<"temperature", "pressure", "vibration">>
build_sensors(num_sensors) ==
  [i \in 1..num_sensors |->
     calibrate(create_sensor(sensor_types[((i - 1) % Len(sensor_types)) + 1]))]

(* ============================ processor.py ============================= *)

EmptyBatch == "ValueError: No data available to process."

\* add_reading's return expression, on the buffer after the append
\* (faulty variants: exact equality, strict comparison)
add_reading_full_eq(buf, size) == Len(buf) = size
add_reading_full_gt(buf, size) == Len(buf) > size
add_reading_full(buf, size) == Len(buf) >= size

\* the buffer after add_reading(value)
add_reading_buffer(buf, value) == Append(buf, value)

\* (faulty variant: one-pass sum of squares that drops a factor n)
batch_stats_onepass(buf) ==
  LET n == Len(buf)
      total == SeqSum(buf)
      squares == [i \in 1..n |-> buf[i] * buf[i]]
  IN [n |-> n, sum |-> total, sqdev |-> n * n * SeqSum(squares) - total * total]
\* numpy mean and population std of a non-empty batch, kept exact:
\* mean = sum / n, std = sqrt(sqdev / n^3) with sqdev = SUM (n*x - sum)^2
batch_stats(buf) ==
  LET n == Len(buf)
      total == SeqSum(buf)
      devs == [i \in 1..n |-> (n * buf[i] - total) * (n * buf[i] - total)]
  IN [n |-> n, sum |-> total, sqdev |-> SeqSum(devs)]

\* the buffer after process_batch: self._buffer.clear()
\* (faulty variant: the buffer is not cleared)
process_batch_keep(buf) == buf
process_batch_buffer(buf) == <<>>

\* (faulty variant: zero statistics instead of the error)
process_batch_zero(buf) ==
  IF buf = <<>> THEN [raised |-> None, n |-> 0, sum |-> 0, sqdev |-> 0]
  ELSE [raised |-> None] @@ batch_stats(buf)
\* what process_batch returns (the elapsed time is not modelled): the statistics,
\* or the ValueError raised on an empty buffer
process_batch_result(buf) ==
  IF buf = <<>> THEN [raised |-> EmptyBatch, n |-> 0, sum |-> 0, sqdev |-> 0]
  ELSE [raised |-> None] @@ batch_stats(buf)

NoResult == [raised |-> None, n |-> 0, sum |-> 0, sqdev |-> 0]

\* gc.collect() in force_gc: the unreachable objects a full collection frees
\* (faulty variant: no collection is run)
gc_collect_none(garbage) == {}
gc_collect(garbage) == garbage

\* WeakValueDictionary: the entries left once the objects in freed are gone
weak_entries(c, freed) ==
  LET keep == {i \in 1..Len(c) : c[i].v \notin freed}
      F[i \in 0..Len(c)] ==
        IF i = 0 THEN <<>> ELSE IF i \in keep THEN Append(F[i - 1], c[i]) ELSE F[i - 1]
  IN F[Len(c)]

\* SensorCache.add(sensor): self._cache[id(sensor)] = sensor
cache_add(c, o) == DictSet(c, o, o)

\* SensorCache.size(): len(self._cache)
cache_size(c) == Len(c)

\* DataProcessor.slow_python_stats(values): the pure Python reference, computed
\* in the order of the source; the returned std is variance ** 0.5 and is kept
\* as the variance it is the root of
EmptyList == "ValueError: Cannot compute stats on empty list."
slow_python_stats(values) ==
  IF values = <<>> THEN [raised |-> EmptyList, mean |-> Rat(0, 1), variance |-> Rat(0, 1)]
  ELSE LET mean == RatDivInt(Rat(SeqSum(values), 1), Len(values))
           sq == [i \in 1..Len(values) |->
                    RatMul(RatSub(Rat(values[i], 1), mean), RatSub(Rat(values[i], 1), mean))]
           variance == RatDivInt(RatSum(sq), Len(values))
       IN [raised |-> None, mean |-> mean, variance |-> variance]

\* DataProcessor.add_reading(value) as a step of the caller
add_reading(value) ==
  /\ buffer' = add_reading_buffer(buffer, value)
  /\ procTrace' = Append(procTrace,
        [op |-> "add_reading", arg |-> value, pre |-> Len(buffer), post |-> Len(buffer'),
         full |-> add_reading_full(buffer', batch_size), out |-> NoResult])
  /\ UNCHANGED batch_size

\* DataProcessor.process_batch() as a step of the caller; on an empty buffer the
\* ValueError is raised before anything is touched
process_batch ==
  /\ buffer' = IF buffer = <<>> THEN buffer ELSE process_batch_buffer(buffer)
  /\ procTrace' = Append(procTrace,
        [op |-> "process_batch", arg |-> 0, pre |-> Len(buffer), post |-> Len(buffer'),
         full |-> FALSE, out |-> process_batch_result(buffer)])
  /\ UNCHANGED batch_size

(* ============================== config.py ============================== *)

Immutable == "AttributeError: SystemConfig is immutable."

\* the class before any construction: _instance is None (0), no object was
\* allocated, the instance has no attributes and _frozen reads the class's False
NoConfig == [instance |-> 0, created |-> 0, frozen |-> FALSE, attrs |-> <<>>, inits |-> 0]

\* the guard of __setattr__: getattr(self, "_frozen", False)
\* (faulty variant: the guard never holds)
setattr_frozen_never(c) == FALSE
setattr_frozen(c) == c.frozen

\* SystemConfig.__setattr__(key, value): the error raised and the state left
config_setattr(c, key, value) ==
  IF setattr_frozen(c) THEN [raised |-> Immutable, cfg |-> c]
  ELSE IF key = "_frozen"
  THEN [raised |-> None, cfg |-> [c EXCEPT !.frozen = (value # Rat(0, 1))]]
  ELSE [raised |-> None, cfg |-> [c EXCEPT !.attrs = DictSet(@, key, value)]]

\* SystemConfig.__new__: the instance is allocated once
config_new(c) ==
  IF c.instance = 0 THEN [c EXCEPT !.instance = c.created + 1, !.created = c.created + 1]
  ELSE c

\* SystemConfig.__init__: nothing when frozen, else the four values and the freeze
config_init(c) ==
  IF c.frozen THEN c
  ELSE LET c1 == config_setattr(c, "buffer_size", Rat(100, 1)).cfg
           c2 == config_setattr(c1, "max_sensors", Rat(50, 1)).cfg
           c3 == config_setattr(c2, "anomaly_threshold", Rat(5, 2)).cfg
           c4 == config_setattr(c3, "poll_interval", Rat(1, 2)).cfg
           c5 == config_setattr(c4, "_frozen", Rat(1, 1)).cfg
       IN [c5 EXCEPT !.inits = c.inits + 1]

(* ============================= security.py ============================= *)

EmptyFilename == "ValueError: Filename must be a non-empty string."
Traversal == "ValueError: Invalid filename: directory traversal detected."
NotBytes == "TypeError: Log data must be bytes."
IsADirectory == "IsADirectoryError"

\* Fernet: a token carries the message under the key that made it, and only
\* that key opens it
InvalidToken == "cryptography.fernet.InvalidToken"
encrypt_alert(message, key) == [key |-> key, message |-> message]
decrypt_alert(token, key) ==
  IF token.key = key THEN [raised |-> None, message |-> token.message]
  ELSE [raised |-> InvalidToken, message |-> token.message]

\* os.path.basename (POSIX): what follows the last "/"
RECURSIVE basename(_)
basename(path) ==
  IF path = <<>> THEN <<>>
  ELSE IF path[Len(path)] = "/" THEN <<>>
  ELSE Append(basename(SubSeq(path, 1, Len(path) - 1)), path[Len(path)])

\* the comparison `sanitized != filename`
\* (faulty variant: the comparison is left out)
is_traversal_never(sanitized, filename) == FALSE
is_traversal(sanitized, filename) == sanitized # filename

\* sanitize_filename(filename): the error raised, or the accepted name
sanitize_filename(filename) ==
  IF filename = <<>> \/ Strip(filename) = <<>>
  THEN [raised |-> EmptyFilename, name |-> <<>>]
  ELSE LET sanitized == basename(filename) IN
       IF is_traversal(sanitized, filename) THEN [raised |-> Traversal, name |-> <<>>]
       ELSE [raised |-> None, name |-> sanitized]

\* the directory entries every working directory has
Directories == {<<".">>, <<".", ".">>}
FileContent(fs, name) == IF DictHas(fs, name) THEN DictGet(fs, name) ELSE <<>>

\* save_secure_log(filename, data) on the file system fs: the error raised and
\* the file system left; the file is opened for appending and gets data + b"\n"
save_secure_log(fs, filename, data) ==
  IF ~data.bytes THEN [raised |-> NotBytes, files |-> fs]
  ELSE LET safe == sanitize_filename(filename) IN
       IF safe.raised # None THEN [raised |-> safe.raised, files |-> fs]
       ELSE IF safe.name \in Directories THEN [raised |-> IsADirectory, files |-> fs]
       ELSE [raised |-> None,
             files |-> DictSet(fs, safe.name,
                               FileContent(fs, safe.name) \o data.content \o <<"\n">>)]

(* ============================= detector.py ============================= *)

\* values.mean() and values.std() of a non-empty float array
np_mean(values) == FDiv(FSum(values), Rat(Len(values), 1))
np_std(values) ==
  LET mean == np_mean(values)
      sq == [i \in 1..Len(values) |->
               FMul(FAbs(FSub(values[i], mean)), FAbs(FSub(values[i], mean)))]
  IN FSqrt(FDiv(FSum(sq), Rat(Len(values), 1)))

\* z_scores > self.threshold
zscore_exceeds(z, threshold) == RatLess(threshold, z)

\* ZScoreStrategy(threshold).detect(data)
zscore_detect(values, threshold) ==
  IF Len(values) = 0 THEN FALSE
  ELSE LET std == np_std(values) IN
       IF std = Rat(0, 1) THEN FALSE
       ELSE LET mean == np_mean(values)
                z_scores == [i \in 1..Len(values) |->
                               FAbs(FDiv(FSub(values[i], mean), std))]
            IN \E i \in 1..Len(values) : zscore_exceeds(z_scores[i], threshold)

\* (values < self.min_value) | (values > self.max_value), for one value
\* (faulty variant: the bounds themselves are out of range)
out_of_range_incl(v, min_value, max_value) ==
  ~RatLess(min_value, v) \/ ~RatLess(v, max_value)
out_of_range(v, min_value, max_value) == RatLess(v, min_value) \/ RatLess(max_value, v)

\* ThresholdStrategy(min_value, max_value).detect(data)
threshold_detect(values, min_value, max_value) ==
  IF Len(values) = 0 THEN FALSE
  ELSE \E i \in 1..Len(values) : out_of_range(values[i], min_value, max_value)

\* the strategy objects
ZScoreStrategy(threshold) ==
  [kind |-> "zscore", threshold |-> threshold, min_value |-> Rat(0, 1), max_value |-> Rat(0, 1)]
ThresholdStrategy(min_value, max_value) ==
  [kind |-> "threshold", threshold |-> Rat(0, 1), min_value |-> min_value, max_value |-> max_value]
NoStrategy == [kind |-> None]

\* AnomalyDetector.detect(data): the active strategy decides
detector_detect(strat, values) ==
  IF strat.kind = "zscore" THEN zscore_detect(values, strat.threshold)
  ELSE threshold_detect(values, strat.min_value, strat.max_value)

(* ---------------- a DataProcessor driven directly by a caller ---------- *)
IdleEngine ==
  /\ iterations = 0 /\ delay = 0 /\ loopPc = "idle" /\ cycle = 0
  /\ taskPc = <<>> /\ results = <<>> /\ snapshots = <<>>
IdleApi == readPc = <<>> /\ readRet = <<>> /\ sensorOps = <<>>
IdleRun ==
  /\ config = [buffer_size |-> 0, max_sensors |-> 0, anomaly_threshold |-> Rat(0, 1)]
  /\ runPc = "none" /\ snapIdx = 0 /\ valIdx = 0 /\ batch_ready = FALSE /\ batches = <<>>
  /\ runLog = <<>>

IdleProcessor == batch_size = 1 /\ buffer = <<>> /\ procTrace = <<>>
IdleFactory == registry = ImportedRegistry
IdleCache == heap = <<>> /\ cache = <<>>
IdleExt ==
  /\ IdleFactory /\ calls = <<>> /\ IdleCache /\ cfg = NoConfig /\ files = <<>>
  /\ strategy = NoStrategy

InitProcessor ==
  /\ sensors = <<>>
  /\ batch_size \in 1..MaxCap
  /\ buffer = <<>>
  /\ procTrace = <<>>
  /\ IdleEngine /\ IdleApi /\ IdleRun /\ IdleExt

AddReading ==
  /\ Len(procTrace) < MaxCalls
  /\ \E value \in Values : add_reading(value)
  /\ UNCHANGED <<sensorVars, engineVars, apiVars, runVars>>
  /\ UNCHANGED extVars

ProcessBatch ==
  /\ Len(procTrace) < MaxCalls
  /\ process_batch
  /\ UNCHANGED <<sensorVars, engineVars, apiVars, runVars>>
  /\ UNCHANGED extVars

NextProcessor == AddReading \/ ProcessBatch

SpecProcessor == InitProcessor /\ [][NextProcessor]_vars

(* ------------- process_batch called on a buffer of readings ------------ *)
\* the buffers add_reading can have built: any readings, any length
StatBuffers == UNION {[1..n -> 0..MaxStatValue] : n \in 0..MaxStatLen}

InitStats ==
  /\ sensors = <<>>
  /\ buffer \in StatBuffers
  /\ batch_size = IF buffer = <<>> THEN 1 ELSE Len(buffer)
  /\ procTrace = <<>>
  /\ IdleEngine /\ IdleApi /\ IdleRun /\ IdleExt

StatsProcessBatch ==
  /\ procTrace = <<>>
  /\ process_batch
  /\ UNCHANGED <<sensorVars, engineVars, apiVars, runVars>>
  /\ UNCHANGED extVars

NextStats == StatsProcessBatch

SpecStats == InitStats /\ [][NextStats]_vars

(* ------------------- create_sensor called by a caller ------------------ *)
\* the strings a caller passes: a word in some letter case between runs of
\* whitespace; the words are the registered names, an unregistered class name,
\* an unknown name, a name broken by a blank, and the empty string
FactoryWords ==
  {TypeChars(t) : t \in SensorTypes} \cup
  {<<"p", "r", "o", "b", "e">>, <<"s", "e", "n", "s", "o", "r">>, <<"t", "e", "m", "p", " ", "r", "a", "t", "u", "r", "e">>, <<>>}
TitleStr(s) == [i \in 1..Len(s) |-> IF i = 1 THEN Upper(s[i]) ELSE Lower(s[i])]
Pads == UNION {[1..n -> {" ", "\t"}] : n \in 0..MaxPad}
FactoryInputs ==
  {lead \o word \o trail :
     lead \in Pads, trail \in Pads,
     word \in UNION {{w, UpperStr(w), TitleStr(w)} : w \in FactoryWords}}

InitFactory ==
  /\ registry \in {ImportedRegistry, registry_new(ImportedRegistry, ProbeClass)}
  /\ calls = <<>>
  /\ sensors = <<>>
  /\ IdleProcessor /\ IdleEngine /\ IdleApi /\ IdleRun
  /\ IdleCache /\ cfg = NoConfig /\ files = <<>> /\ strategy = NoStrategy

CreateSensor ==
  /\ calls = <<>>
  /\ \E sensor_type \in FactoryInputs :
       calls' = <<[fn |-> "create_sensor", arg |-> sensor_type,
                   ret |-> create_sensor_call(sensor_type, registry)]>>
  /\ UNCHANGED <<sensorVars, procVars, engineVars, apiVars, runVars>>
  /\ UNCHANGED <<registry, heap, cache, cfg, files, strategy>>

NextFactory == CreateSensor

SpecFactory == InitFactory /\ [][NextFactory]_vars

(* ------------------ a SensorCache used by a caller --------------------- *)
\* A Sensor holds its generator (self._stream) and the generator's frame holds
\* the sensor, so a sensor without strong owners is freed by the cycle
\* collector only: automatically at some later allocation, or by gc.collect().
Objs == 1..MaxObjs
GarbageOf(h) == {o \in DOMAIN h : h[o].state = "live" /\ h[o].owners = 0}
Garbage == GarbageOf(heap)
Added == {o \in DOMAIN heap : heap[o].added}
Free(h, S) == [o \in DOMAIN h |-> IF o \in S THEN [h[o] EXCEPT !.state = "freed"] ELSE h[o]]

InitCache ==
  /\ heap = [o \in Objs |-> [state |-> "unborn", owners |-> 0, added |-> FALSE]]
  /\ cache = <<>>
  /\ calls = <<>>
  /\ sensors = <<>>
  /\ IdleProcessor /\ IdleEngine /\ IdleApi /\ IdleRun
  /\ IdleFactory /\ cfg = NoConfig /\ files = <<>> /\ strategy = NoStrategy

CacheUnchanged ==
  /\ UNCHANGED <<sensorVars, procVars, engineVars, apiVars, runVars>>
  /\ UNCHANGED <<registry, cfg, files, strategy>>

\* sensor = TempSensor(): a new object with one strong owner
NewSource(o) ==
  /\ heap[o].state = "unborn"
  /\ heap' = [heap EXCEPT ![o] = [state |-> "live", owners |-> 1, added |-> FALSE]]
  /\ UNCHANGED <<cache, calls>>
  /\ CacheUnchanged

\* another strong reference to a sensor the caller holds (a list, a variable)
Acquire(o) ==
  /\ heap[o].state = "live" /\ heap[o].owners >= 1 /\ heap[o].owners < MaxOwners
  /\ heap' = [heap EXCEPT ![o].owners = @ + 1]
  /\ UNCHANGED <<cache, calls>>
  /\ CacheUnchanged

\* del sensor: one strong reference goes
Release(o) ==
  /\ heap[o].state = "live" /\ heap[o].owners >= 1
  /\ heap' = [heap EXCEPT ![o].owners = @ - 1]
  /\ UNCHANGED <<cache, calls>>
  /\ CacheUnchanged

\* cache.add(sensor) by a caller that holds the sensor
CacheAdd(o) ==
  /\ heap[o].state = "live" /\ heap[o].owners >= 1
  /\ cache' = cache_add(cache, o)
  /\ heap' = [heap EXCEPT ![o].added = TRUE]
  /\ UNCHANGED calls
  /\ CacheUnchanged

\* the interpreter's automatic collection frees some of the unreachable sensors
AutoCollect ==
  /\ \E S \in (SUBSET Garbage) \ {{}} :
       /\ heap' = Free(heap, S)
       /\ cache' = weak_entries(cache, S)
  /\ UNCHANGED calls
  /\ CacheUnchanged

\* cache.size()
CacheSize ==
  /\ heap # <<>>
  /\ calls' = <<[fn |-> "size", ret |-> cache_size(cache)]>>
  /\ UNCHANGED <<heap, cache>>
  /\ CacheUnchanged

\* cache.force_gc(): gc.collect(), then len(self._cache)
CacheForceGc ==
  /\ heap # <<>>
  /\ heap' = Free(heap, gc_collect(Garbage))
  /\ cache' = weak_entries(cache, gc_collect(Garbage))
  /\ calls' = <<[fn |-> "force_gc", ret |-> cache_size(cache')]>>
  /\ CacheUnchanged

NextCache ==
  \/ \E o \in Objs : NewSource(o)
  \/ \E o \in Objs : Acquire(o)
  \/ \E o \in Objs : Release(o)
  \/ \E o \in Objs : CacheAdd(o)
  \/ AutoCollect
  \/ CacheSize
  \/ CacheForceGc

SpecCache == InitCache /\ [][NextCache]_vars

(* --------------- an AnomalyDetector used by a caller ------------------- *)
\* float literals a caller writes, as the floats they denote
Literals == {Fl(Rat(0, 1)), Fl(Rat(1, 10)), Fl(Rat(9, 10)), Fl(Rat(1, 1)), Fl(Rat(3, 1))}
DetectData == UNION {[1..n -> Literals] : n \in 0..MaxDetLen}
Strategies ==
  {ZScoreStrategy(t) : t \in {Fl(Rat(1, 2)), Fl(Rat(1, 1)), Fl(Rat(5, 2))}} \cup
  {ThresholdStrategy(Fl(Rat(1, 10)), Fl(Rat(1, 1))), ThresholdStrategy(Fl(Rat(0, 1)), Fl(Rat(3, 1)))}

InitDetect ==
  /\ strategy \in Strategies
  /\ calls = <<>>
  /\ sensors = <<>>
  /\ IdleProcessor /\ IdleEngine /\ IdleApi /\ IdleRun
  /\ IdleFactory /\ IdleCache /\ cfg = NoConfig /\ files = <<>>

DetectUnchanged ==
  /\ UNCHANGED <<sensorVars, procVars, engineVars, apiVars, runVars>>
  /\ UNCHANGED <<registry, heap, cache, cfg, files>>

\* detector.set_strategy(strategy)
SetStrategy ==
  /\ \E strat \in Strategies : strategy' = strat
  /\ UNCHANGED calls
  /\ DetectUnchanged

\* detector.detect(data)
Detect ==
  /\ calls = <<>>
  /\ \E data \in DetectData :
       calls' = <<[fn |-> "detect", strategy |-> strategy, arg |-> data,
                   ret |-> detector_detect(strategy, data)]>>
  /\ UNCHANGED strategy
  /\ DetectUnchanged

NextDetect == SetStrategy \/ Detect

SpecDetect == InitDetect /\ [][NextDetect]_vars

(* ------------------- SystemConfig used by a caller --------------------- *)
ConfigKeys == {"buffer_size", "max_sensors", "anomaly_threshold", "poll_interval",
               "_frozen", "note"}
ConfigValues == {Rat(0, 1), Rat(7, 1)}

InitConfig ==
  /\ cfg = NoConfig
  /\ calls = <<>>
  /\ sensors = <<>>
  /\ IdleProcessor /\ IdleEngine /\ IdleApi /\ IdleRun
  /\ IdleFactory /\ IdleCache /\ files = <<>> /\ strategy = NoStrategy

ConfigUnchanged ==
  /\ UNCHANGED <<sensorVars, procVars, engineVars, apiVars, runVars>>
  /\ UNCHANGED <<registry, heap, cache, files, strategy>>

\* config = SystemConfig()
ConstructConfig ==
  /\ Len(calls) < MaxCfgCalls
  /\ cfg' = config_init(config_new(cfg))
  /\ calls' = Append(calls, [fn |-> "SystemConfig", key |-> None, value |-> Rat(0, 1),
                              raised |-> None, instance |-> cfg'.instance])
  /\ ConfigUnchanged

\* config.key = value on the instance a caller holds
SetConfigAttr ==
  /\ Len(calls) < MaxCfgCalls
  /\ cfg.instance # 0
  /\ \E key \in ConfigKeys, value \in ConfigValues :
       LET r == config_setattr(cfg, key, value) IN
         /\ cfg' = r.cfg
         /\ calls' = Append(calls, [fn |-> "setattr", key |-> key, value |-> value,
                                     raised |-> r.raised, instance |-> cfg.instance])
  /\ ConfigUnchanged

NextConfig == ConstructConfig \/ SetConfigAttr

SpecConfig == InitConfig /\ [][NextConfig]_vars

(* ------------------- save_secure_log called by a caller ---------------- *)
LogNames ==
  {<<>>, <<" ">>, <<"a">>, <<"b">>, <<"a", " ", "b">>, <<"a", "/", "b">>, <<".", ".", "/", "a">>, <<"/", "a">>, <<"a", "/">>, <<".", ".">>}
LogData ==
  {[bytes |-> TRUE, content |-> <<>>], [bytes |-> TRUE, content |-> <<"x">>],
   [bytes |-> TRUE, content |-> <<"x", "\n", "y">>], [bytes |-> FALSE, content |-> <<"x">>]}

InitLog ==
  /\ files \in {<<>>, <<[k |-> <<"a">>, v |-> <<"o", "\n">>]>>}
  /\ calls = <<>>
  /\ sensors = <<>>
  /\ IdleProcessor /\ IdleEngine /\ IdleApi /\ IdleRun
  /\ IdleFactory /\ IdleCache /\ cfg = NoConfig /\ strategy = NoStrategy

SaveSecureLog ==
  /\ Len(calls) < MaxLogCalls
  /\ \E filename \in LogNames, data \in LogData :
       LET r == save_secure_log(files, filename, data) IN
         /\ files' = r.files
         /\ calls' = Append(calls, [fn |-> "save_secure_log", filename |-> filename,
                                     data |-> data, raised |-> r.raised,
                                     before |-> files, after |-> files'])
  /\ UNCHANGED <<sensorVars, procVars, engineVars, apiVars, runVars>>
  /\ UNCHANGED <<registry, heap, cache, cfg, strategy>>

NextLog == SaveSecureLog

SpecLog == InitLog /\ [][NextLog]_vars

(* --------------- sensor_loop called on a list of sensors --------------- *)
\* the sensor lists a caller can build: any classes, each calibrated or not
SensorLists(n) ==
  [1..n -> {calibrate(create_sensor(t)) : t \in SensorTypes}
             \cup {create_sensor(t) : t \in SensorTypes}]

InitEngine ==
  /\ \E n \in 1..MaxSensors : sensors \in SensorLists(n)
  /\ iterations \in 0..MaxIter
  /\ delay \in {0, 1}
  /\ loopPc = "loop" /\ cycle = 0
  /\ taskPc = <<>> /\ results = <<>> /\ snapshots = <<>>
  /\ IdleProcessor /\ IdleApi /\ IdleRun /\ IdleExt

NextEngine ==
  \/ CollectStart
  \/ \E i \in 1..Len(sensors) : ReadSensorDone(i)
  \/ GatherDone
  \/ DelayDone
  \/ LoopReturn

SpecEngine == InitEngine /\ [][NextEngine]_vars

\* the event loop keeps running whatever is ready: a sleep that can end ends, and
\* sensor_loop goes on when it can
FairSpecEngine == SpecEngine /\ WF_vars(NextEngine)

(* ============================ run_system =============================== *)
\* The source fixes buffer_size = 100, max_sensors = 50 and iterations = 10; the
\* run is modelled for every small value of the three.

\* config = SystemConfig(); sensors = build_sensors(config.max_sensors);
\* processor = DataProcessor(batch_size = config.buffer_size); the detector gets
\* ZScoreStrategy(config.anomaly_threshold); sensor_loop is called
\* cache = SensorCache()
SensorCache == <<>>

\* the sensor objects after `sensors = build_sensors(...)` and
\* `for sensor in sensors: cache.add(sensor)`: the list owns each of them, and
\* the loop variable `sensor` stays bound to the last one when the loop ends
built_heap(n) ==
  [o \in 1..n |-> [state |-> "live", owners |-> IF o = n THEN 2 ELSE 1, added |-> TRUE]]

\* for sensor in sensors: cache.add(sensor)
RECURSIVE cache_add_each(_, _)
cache_add_each(c, n) == IF n = 0 THEN c ELSE cache_add(cache_add_each(c, n - 1), n)

\* del sensors: the list goes, and with it its reference to each sensor
del_sensors(h) == [o \in DOMAIN h |-> [h[o] EXCEPT !.owners = @ - 1]]

RunBuild ==
  /\ runPc = "start"
  /\ sensors' = build_sensors(config.max_sensors)
  /\ batch_size' = config.buffer_size
  /\ buffer' = <<>>
  /\ procTrace' = <<>>
  /\ strategy' = ZScoreStrategy(config.anomaly_threshold)
  /\ loopPc' = "loop"
  /\ runPc' = "collect"
  /\ UNCHANGED <<iterations, delay, cycle, taskPc, results, snapshots>>
  /\ heap' = built_heap(config.max_sensors)
  /\ cache' = cache_add_each(SensorCache, config.max_sensors)
  /\ UNCHANGED <<apiVars, config, snapIdx, valIdx, batch_ready, batches, runLog>>
  /\ UNCHANGED <<registry, calls, cfg, files>>

\* for snapshot in snapshots: the next snapshot, or the end of the loop
RunForSnapshot ==
  /\ runPc = "collect" \/ runPc = "next"
  /\ loopPc = "returned"
  /\ snapIdx' = snapIdx + 1
  /\ valIdx' = 1
  /\ runPc' = IF snapIdx + 1 <= Len(snapshots) THEN "add" ELSE "teardown"
  /\ UNCHANGED <<sensorVars, procVars, engineVars, apiVars>>
  /\ UNCHANGED <<config, batch_ready, batches, runLog>>
  /\ UNCHANGED extVars

\* for value in snapshot.values(): batch_ready = processor.add_reading(value)
RunAddReading ==
  /\ runPc = "add"
  /\ valIdx <= Len(snapshots[snapIdx])
  /\ add_reading(DictValues(snapshots[snapIdx])[valIdx])
  /\ batch_ready' = procTrace'[Len(procTrace')].full
  /\ valIdx' = valIdx + 1
  /\ UNCHANGED <<sensorVars, engineVars, apiVars, config, runPc, snapIdx, batches, runLog>>
  /\ UNCHANGED extVars

RunEvent(ev, anomaly, input) ==
  [ev |-> ev, snap |-> snapIdx, anomaly |-> anomaly, input |-> input]

\* if batch_ready: (mean, std), elapsed = processor.process_batch()
RunProcessBatch ==
  /\ runPc = "add"
  /\ valIdx > Len(snapshots[snapIdx])
  /\ batch_ready
  /\ process_batch
  /\ batches' = Append(batches, procTrace'[Len(procTrace')].out)
  /\ runLog' = Append(runLog, RunEvent("ProcessBatch", FALSE, <<>>))
  /\ runPc' = IF buffer = <<>> THEN "crashed" ELSE "detect"
  /\ UNCHANGED <<sensorVars, engineVars, apiVars, config, snapIdx, valIdx, batch_ready>>
  /\ UNCHANGED extVars

\* the snapshot did not leave batch_ready true
RunNotReady ==
  /\ runPc = "add"
  /\ valIdx > Len(snapshots[snapIdx])
  /\ ~batch_ready
  /\ runPc' = "next"
  /\ UNCHANGED <<sensorVars, procVars, engineVars, apiVars>>
  /\ UNCHANGED <<config, snapIdx, valIdx, batch_ready, batches, runLog>>
  /\ UNCHANGED extVars

\* the argument of detector.detect: snapshot.values(), as the float array
\* np.array(list(data)) makes of it
\* (faulty variant: the readings of every snapshot taken so far)
RECURSIVE detect_input_history(_, _)
detect_input_history(snaps, idx) ==
  IF idx = 0 THEN <<>>
  ELSE detect_input_history(snaps, idx - 1) \o
       [i \in 1..Len(snaps[idx]) |-> Fl(Rat(DictValues(snaps[idx])[i], 1))]
detect_input(snaps, idx) ==
  [i \in 1..Len(snaps[idx]) |-> Fl(Rat(DictValues(snaps[idx])[i], 1))]

\* the condition of `if detector.detect(snapshot.values()):`
\* (faulty variant: the alert is raised whatever the detector says)
alert_needed_always(anomaly) == TRUE
alert_needed(anomaly) == anomaly

\* if detector.detect(snapshot.values()): the strategy decides on the snapshot
RunDetect ==
  /\ runPc = "detect"
  /\ LET data == detect_input(snapshots, snapIdx)
         anomaly == detector_detect(strategy, data)
     IN /\ runLog' = Append(runLog, RunEvent("Detect", anomaly, data))
        /\ runPc' = IF alert_needed(anomaly) THEN "alert" ELSE "next"
  /\ UNCHANGED <<sensorVars, procVars, engineVars, apiVars>>
  /\ UNCHANGED <<config, snapIdx, valIdx, batch_ready, batches>>
  /\ UNCHANGED extVars

\* key = generate_key(): one key for the run
RunKey == "key"
AlertsLog == <<"a", "l", "e", "r", "t", "s", ".", "l", "o", "g">>
\* alert_msg = f"Anomaly detected! Mean={mean:.2f}, Std={std:.2f}"
alert_msg(stats) == [text |-> "Anomaly detected!", stats |-> stats]

\* the alert is encrypted, appended to alerts.log and decrypted again
RunAlert ==
  /\ runPc = "alert"
  /\ LET encrypted_alert == encrypt_alert(alert_msg(batches[Len(batches)]), RunKey)
         saved == save_secure_log(files, AlertsLog,
                                  [bytes |-> TRUE, content |-> <<encrypted_alert>>])
         decrypted_alert == decrypt_alert(encrypted_alert, RunKey)
     IN /\ files' = saved.files
        /\ runPc' = IF saved.raised # None \/ decrypted_alert.raised # None
                    THEN "crashed" ELSE "next"
  /\ runLog' = Append(runLog, RunEvent("Alert", TRUE, <<>>))
  /\ UNCHANGED <<sensorVars, procVars, engineVars, apiVars>>
  /\ UNCHANGED <<config, snapIdx, valIdx, batch_ready, batches>>
  /\ UNCHANGED <<registry, calls, heap, cache, cfg, strategy>>

\* cache.size(); del sensors; cache.force_gc(); the run ends
RunTeardown ==
  /\ runPc = "teardown"
  /\ sensors' = <<>>
  /\ LET released == del_sensors(heap)
          freed == gc_collect(GarbageOf(released))
     IN /\ heap' = Free(released, freed)
        /\ cache' = weak_entries(cache, freed)
  /\ calls' = <<[fn |-> "size", ret |-> cache_size(cache)],
                [fn |-> "force_gc", ret |-> cache_size(cache')]>>
  /\ runPc' = "done"
  /\ UNCHANGED <<procVars, engineVars, apiVars>>
  /\ UNCHANGED <<config, snapIdx, valIdx, batch_ready, batches, runLog>>
  /\ UNCHANGED <<registry, cfg, files, strategy>>

\* the source's anomaly_threshold is 2.5; a run is also modelled with 0.5, which
\* a snapshot of two or three readings can exceed
Init ==
  /\ config \in [buffer_size : 1..MaxCap, max_sensors : 1..MaxRunSensors,
                  anomaly_threshold : {Fl(Rat(5, 2)), Fl(Rat(1, 2))}]
  /\ runPc = "start" /\ snapIdx = 0 /\ valIdx = 0 /\ batch_ready = FALSE /\ batches = <<>>
  /\ runLog = <<>>
  /\ sensors = <<>>
  /\ IdleProcessor /\ IdleApi
  /\ iterations \in 1..MaxRunIter
  /\ delay = 0 /\ loopPc = "idle" /\ cycle = 0
  /\ taskPc = <<>> /\ results = <<>> /\ snapshots = <<>>
  /\ IdleExt

Next ==
  \/ RunBuild
  \/ CollectStart
  \/ \E i \in 1..Len(sensors) : ReadSensorDone(i)
  \/ GatherDone
  \/ LoopReturn
  \/ RunForSnapshot
  \/ RunAddReading
  \/ RunProcessBatch
  \/ RunNotReady
  \/ RunDetect
  \/ RunAlert
  \/ RunTeardown

Spec == Init /\ [][Next]_vars

(* ------------------ one sensor driven directly by a caller ------------- *)
InitSensor ==
  /\ \E type \in SensorTypes : sensors = <<NewSensor(type)>>
  /\ readPc = <<"idle">>
  /\ readRet = <<[raised |-> None, value |-> 0]>>
  /\ sensorOps = <<>>
  /\ IdleProcessor /\ IdleEngine /\ IdleRun /\ IdleExt

NextSensor ==
  \/ \E i \in 1..Len(sensors) : Calibrate(i)
  \/ \E i \in 1..Len(sensors) : ReadDataStart(i)
  \/ \E i \in 1..Len(sensors) : ReadDataFinish(i)

SpecSensor == InitSensor /\ [][NextSensor]_vars

(* ------------- one sensor whose stream the caller replaced ------------- *)
\* sensor._stream = iter([...]): a finite stream of good and bad values
StreamItems ==
  {StreamItem("float", 1), StreamItem("int", 1), StreamItem("bool", 1),
   StreamItem("none", 0), StreamItem("str", 0)}
Streams == UNION {[1..n -> StreamItems] : n \in 0..MaxStreamLen}

InitRead ==
  /\ \E type \in SensorTypes, stream \in Streams :
       sensors = <<[type |-> type, name |-> SensorName(type), calibrated |-> FALSE,
                    stream |-> stream]>>
  /\ readPc = <<"idle">>
  /\ readRet = <<[raised |-> None, value |-> 0]>>
  /\ sensorOps = <<>>
  /\ IdleProcessor /\ IdleEngine /\ IdleRun /\ IdleExt

\* the sleep ends and read_data returns what _safe_read returns on the stream
ReadStreamFinish(i) ==
  /\ i \in 1..Len(readPc)
  /\ readPc[i] = "sleeping"
  /\ LET out == safe_read_stream(sensors[i].stream)
     IN /\ readRet' = [readRet EXCEPT ![i] = [raised |-> out.raised, value |-> out.value]]
        /\ sensors' = [sensors EXCEPT ![i].stream = out.rest]
        /\ calls' = Append(calls, [fn |-> "_safe_read", got |-> stream_next(sensors[i].stream),
                                   ret |-> out])
  /\ readPc' = [readPc EXCEPT ![i] = "idle"]
  /\ sensorOps' = Append(sensorOps, SensorOp(i, "read_data", None))
  /\ UNCHANGED <<procVars, engineVars, runVars>>
  /\ UNCHANGED <<registry, heap, cache, cfg, files, strategy>>

NextRead ==
  \/ \E i \in 1..Len(sensors) : Calibrate(i)
  \/ \E i \in 1..Len(sensors) : ReadDataStart(i)
  \/ \E i \in 1..Len(sensors) : ReadStreamFinish(i)

SpecRead == InitRead /\ [][NextRead]_vars

(* ---------------------- claims about a sensor -------------------------- *)
CalibratedBefore(k) ==
  \E j \in 1..(k - 1) : sensorOps[j].op = "calibrate" /\ sensorOps[j].i = sensorOps[k].i

\* C8: read_data raises NotCalibrated exactly as long as calibrate has not been
\* called on the sensor and succeeds after the first calibrate; calibrate never
\* fails, changes nothing on a calibrated sensor, and the flag never goes back.
C8_CalibrationGate ==
  /\ [](\A k \in 1..Len(sensorOps) :
          /\ sensorOps[k].op = "read_data" =>
               /\ sensorOps[k].raised = NotCalibrated <=> ~CalibratedBefore(k)
               /\ sensorOps[k].raised = None <=> CalibratedBefore(k)
          /\ sensorOps[k].op = "calibrate" => sensorOps[k].raised = None)
  /\ [](\A i \in 1..Len(readPc) :
          /\ sensors[i].calibrated <=>
               \E j \in 1..Len(sensorOps) :
                 sensorOps[j].op = "calibrate" /\ sensorOps[j].i = i
          /\ readPc[i] = "sleeping" => sensors[i].calibrated)
  /\ [][\A i \in 1..Len(sensors) :
          sensors[i].calibrated => sensors'[i] = sensors[i]]_vars

C8_Witness ==
  \E k \in 4..Len(sensorOps) :
    /\ sensorOps[k - 3].op = "read_data" /\ sensorOps[k - 3].raised = NotCalibrated
    /\ sensorOps[k - 2].op = "calibrate"
    /\ sensorOps[k - 1].op = "calibrate"
    /\ sensorOps[k].op = "read_data" /\ sensorOps[k].raised = None
    /\ sensors[1].calibrated

(* --------------------- claims about run_system ------------------------- *)
\* C1: in every state of an orchestrator run the buffer holds at most batch_size
\* readings: nothing is appended to a full buffer before process_batch drains it.
C1_BufferWithinCapacity == Len(buffer) <= batch_size

(* -------------------- claims about the data engine -------------------- *)
SensorNames == [i \in 1..Len(sensors) |-> sensors[i].name]
SnapshotAdded == Len(snapshots') = Len(snapshots) + 1
NewSnapshot == snapshots'[Len(snapshots')]

\* C4: every snapshot of collect_once over N sources has exactly N entries, one
\* reading per source, also when several sources have the same type.
C4_OneEntryPerSource ==
  \A k \in 1..Len(snapshots) : Len(snapshots[k]) = Len(sensors)

\* C5: whatever the completion order of the reads of one collect_once, the keys of
\* the snapshot are the names of the source list in its order, and the value at
\* each position is the result of the read task launched for that position.
C5_SourceOrderAndPairing ==
  [][SnapshotAdded =>
       /\ DictKeys(NewSnapshot) = SensorNames
       /\ DictValues(NewSnapshot) = results]_vars

\* C7: a source that is not calibrated never contributes a reading: its read task
\* yields no value, and no snapshot has an entry that comes from uncalibrated
\* sources only.
C7_UncalibratedContributesNothing ==
  /\ \A i \in 1..Len(taskPc) : taskPc[i] = "done" => sensors[i].calibrated
  /\ \A k \in 1..Len(snapshots) : \A e \in 1..Len(snapshots[k]) :
       \E i \in 1..Len(sensors) :
         sensors[i].name = snapshots[k][e].k /\ sensors[i].calibrated

\* C9: sensor_loop runs exactly `iterations` collect_once cycles one after another
\* (a snapshot is appended only when every read of its cycle is done, and the reads
\* of the next cycle start only after that), returns exactly `iterations` snapshots
\* appended in cycle order, and returns whenever every read terminates.
C9_SequentialCycles ==
  /\ [](loopPc = "returned" => Len(snapshots) = iterations /\ cycle = iterations)
  /\ [](Len(snapshots) = cycle /\ cycle <= iterations)
  /\ [][snapshots' # snapshots =>
          /\ SnapshotAdded
          /\ SubSeq(snapshots', 1, Len(snapshots)) = snapshots
          /\ Len(taskPc) = Len(sensors)
          /\ \A i \in 1..Len(taskPc) : taskPc[i] = "done"]_vars
  /\ [][(loopPc' = "gather" /\ loopPc # "gather") =>
          /\ \A i \in 1..Len(taskPc) : taskPc[i] # "sleeping"
          /\ Len(snapshots) = cycle]_vars
  /\ <>(loopPc = "returned")

C9_Witness ==
  /\ loopPc = "returned"
  /\ iterations = MaxIter /\ iterations >= 2
  /\ Len(snapshots) = iterations
  /\ Len(sensors) >= 2

(* ------------------- claims about the DataProcessor -------------------- *)
IsAdd(k) == procTrace[k].op = "add_reading"
IsProcess(k) == procTrace[k].op = "process_batch"
Called == Len(procTrace') = Len(procTrace) + 1
LastCall == procTrace'[Len(procTrace')]

\* C2 as stated: every add_reading returns true iff the buffer length right after
\* the append equals batch_size (false below and above it), and add_reading
\* removes nothing.
C2_FlagIffEqual ==
  \A k \in 1..Len(procTrace) :
    IsAdd(k) => /\ procTrace[k].full = (procTrace[k].post = batch_size)
                /\ procTrace[k].post = procTrace[k].pre + 1

\* C2 amended: every add_reading returns true iff the buffer length right after
\* the append is at least batch_size, and add_reading only appends its argument.
C2_FlagIffReached ==
  /\ [](\A k \in 1..Len(procTrace) :
          IsAdd(k) => /\ procTrace[k].full = (procTrace[k].post >= batch_size)
                      /\ procTrace[k].post = procTrace[k].pre + 1)
  /\ [][Called /\ LastCall.op = "add_reading"
          => buffer' = Append(buffer, LastCall.arg)]_vars

C2_Witness ==
  \E k \in 1..Len(procTrace) :
    IsAdd(k) /\ procTrace[k].post > batch_size /\ procTrace[k].full

\* C3: from an empty DataProcessor(batch_size = C), in a run of C add_reading calls
\* the calls 1..C-1 return false and call C returns true.
C3_FullOnCthCall ==
  \A k \in 1..Len(procTrace) :
    (k <= batch_size /\ \A j \in 1..k : IsAdd(j)) => procTrace[k].full = (k = batch_size)

C3_Witness ==
  /\ batch_size = MaxCap
  /\ Len(procTrace) >= batch_size
  /\ \A j \in 1..batch_size : IsAdd(j)
  /\ procTrace[batch_size].full
  /\ \A j \in 1..(batch_size - 1) : ~procTrace[j].full

\* C10: process_batch on a non-empty buffer returns statistics and empties the
\* buffer; on an empty buffer it raises EmptyBatch, leaving the buffer empty and
\* batch_size unchanged; of two process_batch calls in a row the second raises.
C10_ProcessBatchDrains ==
  /\ [](\A k \in 1..Len(procTrace) :
          IsProcess(k) =>
            /\ procTrace[k].post = 0
            /\ procTrace[k].pre > 0 =>
                 procTrace[k].out.raised = None /\ procTrace[k].out.n = procTrace[k].pre
            /\ procTrace[k].pre = 0 => procTrace[k].out.raised = EmptyBatch
            /\ (k > 1 /\ IsProcess(k - 1)) => procTrace[k].out.raised = EmptyBatch)
  /\ [][Called /\ LastCall.op = "process_batch"
          => /\ buffer' = <<>>
             /\ batch_size' = batch_size
             /\ LastCall.out.raised = (IF buffer = <<>> THEN EmptyBatch ELSE None)]_vars

C10_Witness ==
  \E k \in 2..Len(procTrace) :
    /\ IsProcess(k) /\ IsProcess(k - 1)
    /\ procTrace[k - 1].pre > 0 /\ procTrace[k - 1].out.raised = None
    /\ procTrace[k].out.raised = EmptyBatch
    /\ buffer = <<>>

C12_NormalizedNameCreates ==
  \A k \in 1..Len(calls) :
    LET c == calls[k]
        name == LowerStr(Strip(c.arg))
    IN (c.fn = "create_sensor" /\ DictHas(registry, name)) =>
         /\ c.ret.raised = None
         /\ c.ret = create_sensor_call(name, registry)
         /\ c.ret.sensor.type = DictGet(registry, name)
         /\ c.ret.sensor.name = SensorName(DictGet(registry, name))
         /\ ~c.ret.sensor.calibrated
\* create_sensor has succeeded on a padded, upper-case spelling of a name
C12_Witness ==
  \E k \in 1..Len(calls) :
    /\ calls[k].fn = "create_sensor"
    /\ calls[k].arg = <<" ">> \o UpperStr(TypeChars("pressure")) \o <<"\t">>
    /\ calls[k].ret.raised = None
    /\ calls[k].ret.sensor.type = "pressure"

\* C13: create_sensor fails with InvalidInput when the input is empty or only
\* whitespace, and with UnknownType, a different error that lists the
\* registered type names, when the normalized name is not registered; in both
\* cases no sensor is constructed and the registry is unchanged
C13_FactoryErrors ==
  /\ [](\A k \in 1..Len(calls) :
         LET c == calls[k]
             name == LowerStr(Strip(c.arg))
         IN c.fn = "create_sensor" =>
              /\ Strip(c.arg) = <<>> =>
                    c.ret.raised = InvalidInput /\ c.ret.sensor = NoSensor
              /\ (Strip(c.arg) # <<>> /\ ~DictHas(registry, name)) =>
                    /\ c.ret.raised = UnknownType /\ UnknownType # InvalidInput
                    /\ c.ret.available = DictKeys(registry)
                    /\ c.ret.sensor = NoSensor)
  /\ [][registry' = registry]_vars
\* create_sensor has rejected a string of whitespace only
C13_Witness ==
  \E k \in 1..Len(calls) :
    /\ calls[k].fn = "create_sensor"
    /\ calls[k].arg # <<>> /\ Strip(calls[k].arg) = <<>>
    /\ calls[k].ret.raised = InvalidInput
    /\ calls[k].ret.sensor = NoSensor

(* ------------------------ claims about the cache ----------------------- *)
\* C14: with N distinct sensors added to a SensorCache, size() reports N while
\* all N are strongly owned, and force_gc() reports 0 once every strong owner
\* of every one of them has been released
C14_CacheCounts ==
  [][/\ (CacheSize /\ \A o \in Added : heap[o].state = "live" /\ heap[o].owners >= 1)
          => calls'[1].ret = Cardinality(Added)
     /\ (CacheForceGc /\ \A o \in Added : heap[o].owners = 0)
          => calls'[1].ret = 0]_vars
\* force_gc has reported 0 after all the sensors were added and then released
C14_Witness ==
  /\ calls # <<>> /\ calls[1].fn = "force_gc" /\ calls[1].ret = 0
  /\ heap # <<>> /\ Added = Objs
  /\ \A o \in Objs : heap[o].state = "freed" /\ heap[o].owners = 0
  /\ cache = <<>>

(* --------------------- claims about the strategies --------------------- *)
\* the exact population variance of the data is 0: all the values are equal
ConstantData(values) == \A i, j \in 1..Len(values) : values[i] = values[j]

\* C15: ZScoreStrategy(threshold).detect(values) returns false for an empty
\* sequence and false whenever the population standard deviation of the values
\* is 0 (a constant sequence), for every threshold
C15_ConstantNeverAnomalous ==
  \A k \in 1..Len(calls) :
    (calls[k].fn = "detect" /\ calls[k].strategy.kind = "zscore"
       /\ ConstantData(calls[k].arg)) => calls[k].ret = FALSE


\* a <= b on floats, by cross multiplication
Leq(a, b) == a.num * b.den <= b.num * a.den
\* C16: ThresholdStrategy(min, max).detect(values) returns true if and only if
\* some value is below min or above max; values equal to min or to max are not
\* anomalous, and an empty sequence gives false
C16_ThresholdOutOfRange ==
  \A k \in 1..Len(calls) :
    LET c == calls[k]
        inside(v) == Leq(c.strategy.min_value, v) /\ Leq(v, c.strategy.max_value)
    IN (c.fn = "detect" /\ c.strategy.kind = "threshold") =>
         /\ c.ret <=> ~(\A i \in 1..Len(c.arg) : inside(c.arg[i]))
         /\ (\A i \in 1..Len(c.arg) : c.arg[i] \in {c.strategy.min_value, c.strategy.max_value})
              => c.ret = FALSE
         /\ c.arg = <<>> => c.ret = FALSE
\* a threshold strategy has accepted data made of its two bounds
C16_Witness ==
  \E k \in 1..Len(calls) :
    /\ calls[k].fn = "detect" /\ calls[k].strategy.kind = "threshold"
    /\ calls[k].strategy.min_value # calls[k].strategy.max_value
    /\ calls[k].arg = <<calls[k].strategy.min_value, calls[k].strategy.max_value>>
    /\ calls[k].ret = FALSE


(* --------------------- claims about SystemConfig ----------------------- *)
DefaultConfig ==
  << [k |-> "buffer_size", v |-> Rat(100, 1)], [k |-> "max_sensors", v |-> Rat(50, 1)],
     [k |-> "anomaly_threshold", v |-> Rat(5, 2)], [k |-> "poll_interval", v |-> Rat(1, 2)] >>
\* C17: every SystemConfig() returns the same single instance; its values are
\* initialized exactly once; after the first initialization every attribute
\* assignment on it fails and leaves buffer_size, max_sensors,
\* anomaly_threshold and poll_interval unchanged
C17_SingletonImmutable ==
  /\ \A i, j \in 1..Len(calls) :
       (calls[i].fn = "SystemConfig" /\ calls[j].fn = "SystemConfig")
         => calls[i].instance = calls[j].instance /\ calls[i].instance # 0
  /\ cfg.created <= 1
  /\ cfg.instance # 0 => (cfg.inits = 1 /\ cfg.frozen /\ cfg.attrs = DefaultConfig)
  /\ \A k \in 1..Len(calls) : calls[k].fn = "setattr" => calls[k].raised = Immutable
\* the configuration was constructed, an assignment to buffer_size failed, and
\* a second construction returned the same instance with the same values
C17_Witness ==
  /\ Len(calls) = 3
  /\ calls[1].fn = "SystemConfig"
  /\ calls[2].fn = "setattr" /\ calls[2].key = "buffer_size" /\ calls[2].raised = Immutable
  /\ calls[3].fn = "SystemConfig" /\ calls[3].instance = calls[1].instance
  /\ cfg.attrs = DefaultConfig /\ cfg.inits = 1


(* ---------------------- claims about the secure log -------------------- *)
HasSeparator(filename) == \E i \in 1..Len(filename) : filename[i] = "/"
\* C18: save_secure_log(filename, data) fails without writing when filename is
\* empty, contains a path separator or differs from its basename, or when data
\* is not bytes; on success the content of the log is its previous content
\* followed by data and one newline, every earlier record unchanged
C18_SecureLogAppend ==
  \A k \in 1..Len(calls) :
    LET c == calls[k] IN
    c.fn = "save_secure_log" =>
      /\ (c.filename = <<>> \/ HasSeparator(c.filename) \/ basename(c.filename) # c.filename) =>
            /\ c.raised \in {EmptyFilename, Traversal, NotBytes}
            /\ c.data.bytes => c.raised \in {EmptyFilename, Traversal}
      /\ ~c.data.bytes => c.raised = NotBytes
      /\ c.raised # None => c.after = c.before
      /\ c.raised = None =>
            /\ FileContent(c.after, c.filename)
                 = FileContent(c.before, c.filename) \o c.data.content \o <<"\n">>
            /\ \A i \in 1..Len(c.before) :
                 c.before[i].k # c.filename => c.after[i] = c.before[i]
            /\ Len(c.after) \in {Len(c.before), Len(c.before) + 1}
\* a record was appended to a log that had content, after a call with a path
\* separator in the name had been refused
C18_Witness ==
  /\ Len(calls) = 2
  /\ HasSeparator(calls[1].filename) /\ calls[1].data.bytes
  /\ calls[1].raised = Traversal /\ calls[1].after = calls[1].before
  /\ calls[2].raised = None /\ calls[2].filename = <<"a">>
  /\ FileContent(calls[2].before, <<"a">>) # <<>>
  /\ FileContent(files, <<"a">>) = <<"o", "\n", "x", "\n">>


(* ------------------- claims about detection and alerts ----------------- *)
\* the readings added by the add_reading calls k-m+1 .. k of the trace
AddArgs(k, m) == [i \in 1..m |-> procTrace[k - m + i].arg]
\* the number of add_reading calls that immediately precede call k
RECURSIVE AddsBefore(_)
AddsBefore(k) ==
  IF k <= 1 THEN 0
  ELSE IF procTrace[k - 1].op = "add_reading" THEN 1 + AddsBefore(k - 1) ELSE 0
AsFloats(values) == [i \in 1..Len(values) |-> Rat(values[i], 1)]

\* C19: every detector call of run_system receives exactly the raw readings of
\* the snapshot whose readings made the buffer full in that iteration, never
\* the buffered history, while the statistics reported for the batch are
\* computed over the contents of the buffer
C19_DetectSeesSnapshot ==
  [][(runPc = "detect" /\ runPc' # "detect") =>
       LET d == runLog'[Len(runLog')]
           last == Len(procTrace)
           m == Len(snapshots[snapIdx])
           filled == AddsBefore(last)
           stats == batches[Len(batches)]
       IN /\ d.ev = "Detect" /\ d.snap = snapIdx
          /\ procTrace[last].op = "process_batch"
          /\ filled >= m /\ procTrace[last - 1].full
          /\ d.input = AsFloats(AddArgs(last - 1, m))
          /\ d.input = AsFloats(DictValues(snapshots[snapIdx]))
          /\ stats.raised = None /\ stats.n = filled
          /\ stats.sum = SeqSum(AddArgs(last - 1, filled))
          /\ stats.n >= batch_size]_vars
\* the detector was called on the two readings of a snapshot that completed a
\* batch of more readings than the snapshot has
C19_Witness ==
  /\ runPc \in {"next", "alert"}
  /\ runLog # <<>> /\ runLog[Len(runLog)].ev = "Detect"
  /\ Len(runLog[Len(runLog)].input) = 2
  /\ batches[Len(batches)].n > Len(runLog[Len(runLog)].input)

Events(ev) == {k \in 1..Len(runLog) : runLog[k].ev = ev}
\* C20: an alert is produced only after a batch was processed in the same
\* iteration and the active strategy returned true on that iteration's
\* snapshot (ProcessBatch, Detect, Alert); for each anomalous batch exactly one
\* encrypted record is appended to the alert log; no record is written for a
\* non-anomalous batch or for a snapshot that did not fill the buffer
C20_AlertAfterAnomalousBatch ==
  /\ [](LET log == FileContent(files, AlertsLog) IN
        /\ \A k \in Events("Alert") :
             /\ k >= 3
             /\ runLog[k - 1].ev = "Detect" /\ runLog[k - 1].anomaly
             /\ runLog[k - 1].snap = runLog[k].snap
             /\ runLog[k - 2].ev = "ProcessBatch" /\ runLog[k - 2].snap = runLog[k].snap
        /\ \A k \in Events("Detect") :
             /\ k >= 2
             /\ runLog[k - 1].ev = "ProcessBatch" /\ runLog[k - 1].snap = runLog[k].snap
             /\ (runLog[k].anomaly /\ (k < Len(runLog) \/ runPc # "alert"))
                  => k < Len(runLog) /\ runLog[k + 1].ev = "Alert"
             /\ (~runLog[k].anomaly /\ k < Len(runLog)) => runLog[k + 1].ev = "ProcessBatch"
        /\ \A j, k \in Events("Alert") : runLog[j].snap = runLog[k].snap => j = k
        /\ Len(log) = 2 * Cardinality(Events("Alert"))
        /\ \A j \in 1..Cardinality(Events("Alert")) :
             /\ decrypt_alert(log[2 * j - 1], RunKey).raised = None
             /\ decrypt_alert(log[2 * j - 1], RunKey).message.text = "Anomaly detected!"
             /\ log[2 * j] = "\n")
  /\ [][/\ (runPc = "detect" /\ runPc' # "detect") =>
            /\ runLog'[Len(runLog')].anomaly
                 = detector_detect(strategy, AsFloats(DictValues(snapshots[snapIdx])))
            /\ files' = files
        /\ files' # files =>
            /\ runPc = "alert" /\ runLog[Len(runLog)].ev = "Detect"
            /\ runLog[Len(runLog)].anomaly /\ runLog[Len(runLog)].snap = snapIdx
            /\ FileContent(files', AlertsLog)
                 = FileContent(files, AlertsLog)
                   \o <<encrypt_alert(alert_msg(batches[Len(batches)]), RunKey), "\n">>]_vars
\* a finished run in which one batch raised an alert and another did not
C20_Witness ==
  /\ runPc = "done"
  /\ Cardinality(Events("Alert")) = 1
  /\ Cardinality(Events("ProcessBatch")) = 2
  /\ Len(FileContent(files, AlertsLog)) = 2
  /\ \E k \in Events("Detect") : ~runLog[k].anomaly


(* ------------------ claims about the batches of a run ------------------ *)
\* the add_reading calls among the first k calls that made the buffer full: the
\* length was below batch_size before the append and add_reading returned true
Fills(k) ==
  {j \in 1..k : IsAdd(j) /\ procTrace[j].pre < batch_size /\ procTrace[j].full}
Processed(k) == {j \in 1..k : IsProcess(j)}

\* C21: in a run of run_system with at least one sensor, process_batch is called
\* exactly once for each time the buffer becomes full: after every prefix of the
\* calls on the processor the fills are the batches produced, plus one exactly
\* while the buffer is full and waits for the end of its snapshot; every
\* process_batch call finds readings in the buffer (EmptyBatch is never raised),
\* follows an add_reading call directly, and leaves one BatchStatistics; at the
\* end of the run every fill has its batch.
C21_OneBatchPerFill ==
  config.max_sensors >= 1 =>
    /\ \A k \in 1..Len(procTrace) :
         LET pending == Cardinality(Fills(k)) - Cardinality(Processed(k))
         IN /\ pending \in {0, 1}
            /\ (pending = 1) = (procTrace[k].post >= batch_size)
            /\ IsProcess(k) => /\ procTrace[k].pre > 0
                               /\ procTrace[k].out.raised = None
                               /\ k > 1 /\ IsAdd(k - 1)
    /\ Len(batches) = Cardinality(Processed(Len(procTrace)))
    /\ \A b \in 1..Len(batches) : batches[b].raised = None
    /\ runPc = "done" =>
         Cardinality(Fills(Len(procTrace))) = Len(batches)

\* a full run that filled the buffer twice, once in the middle of a snapshot,
\* and produced two batches
C21_Witness ==
  /\ runPc = "done"
  /\ Len(batches) = 2
  /\ \E k \in 1..(Len(procTrace) - 1) :
       k \in Fills(Len(procTrace)) /\ IsAdd(k + 1) /\ procTrace[k + 1].post > batch_size


(* ---------------------- claims about the teardown ---------------------- *)
\* C22: once run_system has deleted its sensor list, no sensor built for the run
\* has a strong owner left, every one of them is freed by the collection, and
\* force_gc() returns 0.
C22_TeardownLeavesNoSensor ==
  runPc = "done" =>
    /\ \A o \in DOMAIN heap : heap[o].owners = 0 /\ heap[o].state = "freed"
    /\ calls[2].fn = "force_gc" /\ calls[2].ret = 0


(* -------------- claims about the cache and the collector --------------- *)
CacheKeys(c) == {c[i].k : i \in 1..Len(c)}
OwnedAdded(h) == {o \in DOMAIN h : h[o].added /\ h[o].state = "live" /\ h[o].owners >= 1}

\* the parts of C23 that do not depend on what a sweep frees: every entry is an
\* allocated sensor (a destroyed one is never counted), a sensor added twice has
\* one entry, and an added sensor that is still owned has its entry whatever
\* collection ran in between; a sensor without owners is freed by force_gc
\* whether or not the cache holds it
CacheNeverOwns ==
  /\ [](/\ \A i \in 1..Len(cache) : heap[cache[i].v].state = "live" /\ cache[i].k = cache[i].v
        /\ Cardinality(CacheKeys(cache)) = Len(cache)
        /\ OwnedAdded(heap) \subseteq CacheKeys(cache))
  /\ [][CacheForceGc => \A o \in DOMAIN heap : heap'[o].owners = 0 => heap'[o].state # "live"]_vars

\* C23: under every interleaving of add, release and collections, the cache
\* neither owns nor counts a destroyed sensor, and after any collection pass,
\* automatic or forced, its entries are exactly the added sensors that still
\* have a strong owner.
C23_SweepLeavesOwnedOnly ==
  /\ CacheNeverOwns
  /\ [][(AutoCollect \/ CacheForceGc) => CacheKeys(cache') = OwnedAdded(heap')]_vars


(* --------------------- claims about the registry ----------------------- *)
\* a second concrete class a user module defines under the logical name of
\* TempSensor, spelled with a capital
SecondClass ==
  [name |-> <<"O", "t", "h", "e", "r">>, SENSOR_NAME |-> TitleStr(TypeChars("temperature")),
   abstract |-> FALSE, cls |-> "pressure"]
Spellings(key) == {key, UpperStr(key), TitleStr(key)}

\* C24: every class in the registry sits under a lower-cased key and is created
\* by create_sensor from any spelling of that key; defining a second class
\* under an existing name replaces the entry and adds none; the mapping
\* get_registry returns is a copy with the registry's entries.
C24_RegisteredTypesCreatable ==
  /\ \A i \in 1..Len(registry) :
       /\ registry[i].k = LowerStr(registry[i].k)
       /\ \A spelling \in Spellings(registry[i].k) :
            LET made == create_sensor_call(spelling, registry)
            IN made.raised = None /\ made.sensor.type = registry[i].v
  /\ LET again == registry_new(registry, SecondClass)
     IN /\ Len(again) = Len(registry)
        /\ DictKeys(again) = DictKeys(registry)
        /\ DictGet(again, TypeChars("temperature")) = SecondClass.cls
  /\ get_registry(registry) = registry


(* ------------------ claims about a faulty stream ----------------------- *)
\* C25: every read of a calibrated sensor whose stream is exhausted or yields
\* None or a non-numeric value raises nothing, returns 0.0 and prints a report
\* of the fault, in the exhaustion case as in the invalid-value case.
C25_FaultyReadReported ==
  \A k \in 1..Len(calls) :
    (calls[k].fn = "_safe_read" /\
     (calls[k].got.raised = StopIteration \/ calls[k].got.item.kind \in {"none", "str"})) =>
      /\ calls[k].ret.raised = None
      /\ calls[k].ret.value = 0
      /\ calls[k].ret.printed # None

====
